---- MODULE Spec2Model ----
(***************************************************************************)
(* StreamDeck Plus polling loop (src/main.py): main() claims the USB       *)
(* interface, then reads interrupt reports, renders each as a hex string   *)
(* and tests the string for the known signatures; on USBError errno 2 it   *)
(* releases and re-opens the interface.  The USB library (pyusb) and the   *)
(* device are the environment: every library call either succeeds or       *)
(* raises, chosen nondeterministically.                                     *)
(***************************************************************************)
EXTENDS Integers, Sequences, FiniteSets, TLC

\* ------------------------------------------------------------------ bounds
\* Number of reads the model follows (the loop itself is `while True`).
MaxIter == 3
\* Longest padding put before and after a report core.
MaxPad == 1

\* --------------------------------------------------------------- constants
\* errno of "operation timed out", tested at line 126.
ETIMEDOUT == 110
\* errno of "no such file or directory", tested at line 128.
ENOENT == 2
\* errno values a USBError raised by dev.read can carry in the model:
\* timeout, ENOENT, ENODEV ("no such device") and EIO.
USBErrnos == {ETIMEDOUT, ENOENT, 19, 5}
\* The value of `errno` when the iteration's read raised nothing.
NoErrno == 0

\* ------------------------------------------------------- bytes_to_hex_str
HexDigits == <<"0", "1", "2", "3", "4", "5", "6", "7",
               "8", "9", "A", "B", "C", "D", "E", "F">>

\* f"{b:X}": no zero padding.
Format02X_nopad(b) ==
    IF b < 16 THEN <<HexDigits[b + 1]>>
    ELSE <<HexDigits[(b \div 16) + 1], HexDigits[(b % 16) + 1]>>

\* f"{b:02X}": two uppercase hex digits, zero padded.
Format02X(b) == <<HexDigits[(b \div 16) + 1], HexDigits[(b % 16) + 1]>>

\* " ".join(f"{b:02X}" for b in data), as a sequence of characters.
RECURSIVE bytes_to_hex_str(_)
bytes_to_hex_str(data) ==
    IF Len(data) = 0 THEN <<>>
    ELSE IF Len(data) = 1 THEN Format02X(data[1])
    ELSE Format02X(data[1]) \o <<" ">> \o bytes_to_hex_str(Tail(data))

\* Python's `s in t` on strings: s occurs in t as a contiguous substring.
StrIn(s, t) ==
    \E i \in 0..(Len(t) - Len(s)) : SubSeq(t, i + 1, i + Len(s)) = s

\* The string literal of line 136: "01 03 05 00 01 01".
SigKnob1Up == <<"0","1"," ","0","3"," ","0","5"," ","0","0"," ","0","1"," ","0","1">>
\* The string literal of line 141: "01 00 08 00 01".
SigButton1 == <<"0","1"," ","0","0"," ","0","8"," ","0","0"," ","0","1">>

\* What the two branches print (the dispatch of the gesture).
KnobTurn1Up == "Volume Knob 1 Turned Up"
ButtonPress1 == "Button Pressed."

\* The signatures in the order the loop tests them.
Signatures == << [sig |-> SigKnob1Up, gesture |-> KnobTurn1Up],
                 [sig |-> SigButton1, gesture |-> ButtonPress1] >>

\* ----------------------------------------------------------------- reports
\* Bytes used as padding around a core.
PadBytes == {0, 1}

RECURSIVE SeqsUpTo(_, _)
SeqsUpTo(S, n) ==
    IF n = 0 THEN {<<>>}
    ELSE LET shorter == SeqsUpTo(S, n - 1)
         IN  shorter \cup {<<b>> \o s : b \in S, s \in {t \in shorter : Len(t) = n - 1}}

Pads == SeqsUpTo(PadBytes, MaxPad)

\* Report cores: the empty report, each signature, both signatures in either
\* order (overlapping in one byte), signatures one byte short, a report with
\* no signature byte, and reports whose hex digits only resemble a signature
\* across byte boundaries.
Cores == { <<>>,
           <<1, 3, 5, 0, 1, 1>>,
           <<1, 0, 8, 0, 1>>,
           <<1, 3, 5, 0, 1, 1, 0, 8, 0, 1>>,
           <<1, 0, 8, 0, 1, 3, 5, 0, 1, 1>>,
           <<3, 5, 0, 1>>,
           <<0, 8, 0>>,
           <<255, 255, 255>>,
           <<160, 16, 48>>,
           <<16, 48, 80, 0, 16, 16>> }

\* The data dev.read can return in the model.
Reports == {p \o c \o s : p \in Pads, c \in Cores, s \in Pads}

\* ------------------------------------------------------------------- state
VARIABLES
    pc,            \* position of main(): the statement that runs next
    claimed,       \* the process holds the claim on interface IFACE
    driver_active, \* dev.is_kernel_driver_active(IFACE)
    raw,           \* main's `raw`: the data of the last successful read
    hex_str,       \* main's `hex_str`
    errno,         \* e.errno of the USBError caught in this iteration, or NoErrno
    exc,           \* the exception propagating through main, or "none"
    out,           \* what this iteration has printed for gestures, in order
    iter,          \* number of reads issued so far
    raised_at,     \* position at which the exception that left the loop was raised
    interrupted,   \* a KeyboardInterrupt has been delivered
    closed,        \* close_device has been called
    reopens,       \* number of re-opens (lines 130-131) that completed
    last_call      \* the last USB library call and whether it succeeded

vars == <<pc, claimed, driver_active, raw, hex_str, errno, exc, out, iter,
          raised_at, interrupted, closed, reopens, last_call>>

\* Positions inside the `while True` of lines 119-145.
LoopPcs == {"read", "except", "release", "open_device", "if_knob", "if_button", "sleep"}

\* Positions covered by the `try` of line 118.
TryPcs == LoopPcs

\* The reference state machine read off the program position: the loop is
\* Reconnecting while it executes lines 129-131 and Connected otherwise.
ResilienceState ==
    IF pc \in {"release", "open_device"} THEN "Reconnecting" ELSE "Connected"

Call(fn, ok) == [fn |-> fn, ok |-> ok]

Init ==
    /\ pc = "find_and_open"
    /\ claimed = FALSE
    /\ driver_active \in BOOLEAN
    /\ raw = <<>>
    /\ hex_str = <<>>
    /\ errno = NoErrno
    /\ exc = "none"
    /\ out = <<>>
    /\ iter = 0
    /\ raised_at = "none"
    /\ interrupted = FALSE
    /\ closed = FALSE
    /\ reopens = 0
    /\ last_call = Call("none", TRUE)

\* An exception x raised at the current position: outside the try it leaves
\* main at once; inside, KeyboardInterrupt goes to the handler of line 147 and
\* anything else straight to the finally of line 149.
Raise(x) ==
    /\ exc' = x
    /\ raised_at' = pc
    /\ pc' = IF pc \notin TryPcs THEN "exited"
             ELSE IF x = "KeyboardInterrupt" THEN "except_kbd"
             ELSE "finally"

\* usb.util.release_interface(dev, IFACE): on success the claim is gone; when
\* it raises, a claim that was held may or may not survive (kept).
release_interface(ok, kept) ==
    /\ claimed' = IF ok THEN FALSE ELSE (claimed /\ kept)
    /\ last_call' = Call("release_interface", ok)

\* find_and_open with a retry: a device that is not found is looked for again.
find_and_open_retries ==
    /\ pc = "find_and_open"
    /\ \E r \in {"ok", "find", "is_kernel_driver_active", "detach_kernel_driver",
                 "claim_interface"} :
        /\ (r = "detach_kernel_driver") => driver_active
        /\ last_call' = Call(IF r = "ok" THEN "claim_interface" ELSE r, r = "ok")
        /\ driver_active' = IF r \in {"ok", "claim_interface"} THEN FALSE ELSE driver_active
        /\ claimed' = (r = "ok")
        /\ IF r = "ok" THEN pc' = "setup" /\ UNCHANGED <<exc, raised_at>>
           ELSE IF r = "find" THEN UNCHANGED <<pc, exc, raised_at>>
           ELSE Raise("USBError")
    /\ UNCHANGED <<raw, hex_str, errno, out, iter, interrupted, closed, reopens>>

\* find_and_open(): find the device, detach an active kernel driver, claim.
\* r names the call that fails ("ok": none does).
find_and_open ==
    /\ pc = "find_and_open"
    /\ \E r \in {"ok", "find", "is_kernel_driver_active", "detach_kernel_driver",
                 "claim_interface"} :
        /\ (r = "detach_kernel_driver") => driver_active
        /\ last_call' = Call(IF r = "ok" THEN "claim_interface" ELSE r, r = "ok")
        /\ driver_active' = IF r \in {"ok", "claim_interface"} THEN FALSE ELSE driver_active
        /\ claimed' = (r = "ok")
        /\ IF r = "ok"
             THEN pc' = "setup" /\ UNCHANGED <<exc, raised_at>>
             ELSE Raise(IF r = "find" THEN "RuntimeError" ELSE "USBError")
    /\ UNCHANGED <<raw, hex_str, errno, out, iter, interrupted, closed, reopens>>

\* Lines 112-117: the two VolumeController() constructions, which raise when
\* PulseAudio is unreachable or has no sink, then raw = "" and hex_str = "".
Setup ==
    /\ pc = "setup"
    /\ \E ok \in BOOLEAN :
        IF ok
          THEN pc' = "read" /\ raw' = <<>> /\ hex_str' = <<>>
               /\ UNCHANGED <<exc, raised_at>>
          ELSE Raise("RuntimeError") /\ UNCHANGED <<raw, hex_str>>
    /\ UNCHANGED <<claimed, driver_active, errno, out, iter, interrupted, closed, reopens, last_call>>

\* Lines 120-125: dev.read either returns data, which is rendered into
\* hex_str, or raises USBError, which the except clause catches.  A device
\* that went away may come back with its kernel driver bound again.
Read ==
    /\ pc = "read"
    /\ iter < MaxIter
    /\ iter' = iter + 1
    /\ out' = <<>>
    /\ \/ \E data \in Reports :
            /\ raw' = data
            /\ hex_str' = bytes_to_hex_str(data)
            /\ errno' = NoErrno
            /\ last_call' = Call("read", TRUE)
            /\ pc' = "if_knob"
            /\ UNCHANGED driver_active
       \/ \E n \in USBErrnos, d \in BOOLEAN :
            /\ errno' = n
            /\ last_call' = Call("read", FALSE)
            /\ pc' = "except"
            /\ driver_active' = IF n \in {ENOENT, 19} THEN d ELSE driver_active
            /\ UNCHANGED <<raw, hex_str>>
    /\ UNCHANGED <<claimed, exc, raised_at, interrupted, closed, reopens>>

\* Every errno but the timeout starts the re-open.
ExceptUSBError_reopen_on_any ==
    /\ pc = "except"
    /\ pc' = IF errno = ETIMEDOUT THEN "if_knob" ELSE "release"
    /\ UNCHANGED <<claimed, driver_active, raw, hex_str, errno, exc, out, iter,
                   raised_at, interrupted, closed, reopens, last_call>>

\* errno 2 handled like any other errno: no re-open.
ExceptUSBError_no_reopen ==
    /\ pc = "except"
    /\ pc' = "if_knob"
    /\ UNCHANGED <<claimed, driver_active, raw, hex_str, errno, exc, out, iter,
                   raised_at, interrupted, closed, reopens, last_call>>

\* Lines 126-129: errno 110 is passed over, errno 2 starts the re-open, any
\* other errno falls out of the except clause.
ExceptUSBError ==
    /\ pc = "except"
    /\ pc' = IF errno = ETIMEDOUT THEN "if_knob"
             ELSE IF errno = ENOENT THEN "release"
             ELSE "if_knob"
    /\ UNCHANGED <<claimed, driver_active, raw, hex_str, errno, exc, out, iter,
                   raised_at, interrupted, closed, reopens, last_call>>

\* Line 130 with the release guarded: a release that raises is passed over
\* and the re-open goes on.
Release_best_effort ==
    /\ pc = "release"
    /\ \E ok \in BOOLEAN, kept \in BOOLEAN : release_interface(ok, kept)
    /\ pc' = "open_device"
    /\ UNCHANGED <<driver_active, raw, hex_str, errno, exc, out, iter, raised_at,
                   interrupted, closed, reopens>>

\* Line 130: usb.util.release_interface(dev, IFACE), not guarded.
Release ==
    /\ pc = "release"
    /\ \E ok \in BOOLEAN, kept \in BOOLEAN :
        /\ release_interface(ok, kept)
        /\ IF ok THEN pc' = "open_device" /\ UNCHANGED <<exc, raised_at>>
                 ELSE Raise("USBError")
    /\ UNCHANGED <<driver_active, raw, hex_str, errno, out, iter, interrupted, closed, reopens>>

\* open_device with the claim wrapped like the detach: a claim that fails is
\* only warned about and the loop goes on.
open_device_claim_swallowed ==
    /\ pc = "open_device"
    /\ \E r \in {"ok", "is_kernel_driver_active", "set_configuration", "claim_interface"},
          det \in BOOLEAN :
        /\ det \/ driver_active
        /\ driver_active' = IF r = "is_kernel_driver_active" THEN driver_active
                            ELSE (driver_active /\ ~det)
        /\ (r = "ok") => ~driver_active'
        /\ last_call' = Call(IF r = "ok" THEN "claim_interface" ELSE r, r = "ok")
        /\ claimed' = (claimed \/ r = "ok")
        /\ reopens' = IF r = "ok" THEN reopens + 1 ELSE reopens
        /\ IF r \in {"ok", "claim_interface"}
             THEN pc' = "if_knob" /\ UNCHANGED <<exc, raised_at>>
             ELSE Raise("USBError")
    /\ UNCHANGED <<raw, hex_str, errno, out, iter, interrupted, closed>>

\* Line 131, open_device(dev): detach an active kernel driver (a failure to
\* detach is only warned about), set the configuration, claim the interface.
\* r names the call that raises ("ok": none does); det: the detach succeeds.
\* The claim cannot succeed while the kernel driver still owns the interface.
open_device ==
    /\ pc = "open_device"
    /\ \E r \in {"ok", "is_kernel_driver_active", "set_configuration", "claim_interface"},
          det \in BOOLEAN :
        /\ det \/ driver_active
        /\ driver_active' = IF r = "is_kernel_driver_active" THEN driver_active
                            ELSE (driver_active /\ ~det)
        /\ (r = "ok") => ~driver_active'
        /\ last_call' = Call(IF r = "ok" THEN "claim_interface" ELSE r, r = "ok")
        /\ claimed' = (claimed \/ r = "ok")
        /\ reopens' = IF r = "ok" THEN reopens + 1 ELSE reopens
        /\ IF r = "ok" THEN pc' = "if_knob" /\ UNCHANGED <<exc, raised_at>>
                       ELSE Raise("USBError")
    /\ UNCHANGED <<raw, hex_str, errno, out, iter, interrupted, closed>>

\* Lines 133-138: print hex_str, then the first signature test.
IfKnob ==
    /\ pc = "if_knob"
    /\ out' = IF StrIn(Signatures[1].sig, hex_str)
                THEN Append(out, Signatures[1].gesture) ELSE out
    /\ pc' = "if_button"
    /\ UNCHANGED <<claimed, driver_active, raw, hex_str, errno, exc, iter,
                   raised_at, interrupted, closed, reopens, last_call>>

\* The second test made an `elif` of the first.
IfButton_elif ==
    /\ pc = "if_button"
    /\ out' = IF out = <<>> /\ StrIn(Signatures[2].sig, hex_str)
                THEN Append(out, Signatures[2].gesture) ELSE out
    /\ pc' = "sleep"
    /\ UNCHANGED <<claimed, driver_active, raw, hex_str, errno, exc, iter,
                   raised_at, interrupted, closed, reopens, last_call>>

\* Lines 141-142: the second signature test, an `if` of its own.
IfButton ==
    /\ pc = "if_button"
    /\ out' = IF StrIn(Signatures[2].sig, hex_str)
                THEN Append(out, Signatures[2].gesture) ELSE out
    /\ pc' = "sleep"
    /\ UNCHANGED <<claimed, driver_active, raw, hex_str, errno, exc, iter,
                   raised_at, interrupted, closed, reopens, last_call>>

\* The loop body without line 145: hex_str keeps the last report.
Sleep_keeps_hex_str ==
    /\ pc = "sleep"
    /\ pc' = "read"
    /\ UNCHANGED <<claimed, driver_active, raw, hex_str, errno, exc, out, iter,
                   raised_at, interrupted, closed, reopens, last_call>>

\* Lines 144-145: the pacing delay, then hex_str = "".
Sleep ==
    /\ pc = "sleep"
    /\ hex_str' = <<>>
    /\ pc' = "read"
    /\ UNCHANGED <<claimed, driver_active, raw, errno, exc, out, iter,
                   raised_at, interrupted, closed, reopens, last_call>>

\* Ctrl-C: KeyboardInterrupt is raised in the statement that is running,
\* anywhere from the controller set-up to the end of the loop body.
KeyboardInterrupt ==
    /\ pc \in {"setup"} \cup LoopPcs
    /\ ~interrupted
    /\ interrupted' = TRUE
    /\ Raise("KeyboardInterrupt")
    /\ UNCHANGED <<claimed, driver_active, raw, hex_str, errno, out, iter,
                   closed, reopens, last_call>>

\* Lines 147-148: the handler prints "Stopping" and the exception is handled.
ExceptKeyboardInterrupt ==
    /\ pc = "except_kbd"
    /\ exc' = "none"
    /\ pc' = "finally"
    /\ UNCHANGED <<claimed, driver_active, raw, hex_str, errno, out, iter,
                   raised_at, interrupted, closed, reopens, last_call>>

\* close_device without its try / except: a failing release raises.
close_device_unguarded ==
    /\ \E ok \in BOOLEAN, kept \in BOOLEAN :
        /\ release_interface(ok, kept)
        /\ IF ok THEN UNCHANGED <<exc, raised_at>>
                 ELSE exc' = "USBError" /\ raised_at' = pc
    /\ closed' = TRUE

\* close_device(dev): release_interface inside try / except Exception: pass,
\* so whatever the release raises is dropped and the pending exception, if
\* any, is the one that was pending before.
close_device ==
    /\ \E ok \in BOOLEAN, kept \in BOOLEAN : release_interface(ok, kept)
    /\ closed' = TRUE
    /\ UNCHANGED <<exc, raised_at>>

\* main without the finally clause: the claim is left as it is.
Finally_no_close ==
    /\ pc = "finally"
    /\ pc' = "exited"
    /\ UNCHANGED <<claimed, driver_active, raw, hex_str, errno, exc, out, iter,
                   raised_at, interrupted, closed, reopens, last_call>>

\* Lines 149-150: finally: close_device(dev); then main returns, or the
\* pending exception goes on to end the process.
Finally ==
    /\ pc = "finally"
    /\ close_device
    /\ pc' = "exited"
    /\ UNCHANGED <<driver_active, raw, hex_str, errno, out, iter, interrupted, reopens>>

Next ==
    \/ find_and_open
    \/ Setup
    \/ Read
    \/ ExceptUSBError
    \/ Release
    \/ open_device
    \/ IfKnob
    \/ IfButton
    \/ Sleep
    \/ KeyboardInterrupt
    \/ ExceptKeyboardInterrupt
    \/ Finally

Spec == Init /\ [][Next]_vars

\* The interpreter does not stop between the raise of an exception and the
\* end of main: the handler of line 147 and the finally clause always run.
FairSpec == Spec /\ WF_vars(ExceptKeyboardInterrupt) /\ WF_vars(Finally)

\* ------------------------------------------------------------------ claims
\* The gestures printed so far in this iteration, as a set.
Dispatched == {out[k] : k \in 1..Len(out)}

\* The iteration's read returned data and both signature tests have run.
Classified == pc = "sleep" /\ errno = NoErrno

\* C1: every report dispatches at most one Gesture; a report whose hex string
\* contains both signatures dispatches only the first registered one, the
\* knob turn.  (Stated as the claim has it; the code runs both tests.)
C1_FirstMatchOnly ==
    Classified =>
        /\ Len(out) <= 1
        /\ (StrIn(SigKnob1Up, hex_str) /\ StrIn(SigButton1, hex_str))
              => out = <<KnobTurn1Up>>

\* C2: once a report has been read and tested, the Gesture of a signature has
\* been dispatched exactly when the report's hex string contains that
\* signature, wherever it sits; 01 00 08 00 01 00 dispatches the button press,
\* FF FF FF and the empty report dispatch nothing.
C2_ClassificationExact ==
    Classified =>
        /\ \A k \in 1..Len(Signatures) :
              StrIn(Signatures[k].sig, bytes_to_hex_str(raw))
                 <=> Signatures[k].gesture \in Dispatched
        /\ (raw = <<1, 0, 8, 0, 1, 0>>) => ButtonPress1 \in Dispatched
        /\ (raw = <<1, 3, 5, 0, 1, 1, 0>>) => KnobTurn1Up \in Dispatched
        /\ (raw \in {<<>>, <<255, 255, 255>>}) => out = <<>>

\* C2 witness: a report that carries the button signature behind a leading
\* byte and in front of a trailing one has dispatched the button press.
C2_Witness ==
    /\ Classified
    /\ Len(raw) = 7 /\ SubSeq(raw, 2, 6) = <<1, 0, 8, 0, 1>>
    /\ ButtonPress1 \in Dispatched

\* A step of the program itself, not the arrival of a KeyboardInterrupt.
ProgramStep == interrupted' = interrupted

\* C3: a read that fails with errno 2 takes the loop from Connected to
\* Reconnecting; a release that succeeds is followed by the re-open; a re-open
\* that succeeds takes the loop back to Connected with the claim held and no
\* exception pending; and a report read after a re-open is classified and
\* dispatched exactly as before it.
C3_Recovery ==
    /\ [][ /\ (pc = "except" /\ errno = ENOENT /\ ProgramStep)
                => (ResilienceState = "Connected" /\ ResilienceState' = "Reconnecting")
           /\ (pc = "release" /\ last_call' = Call("release_interface", TRUE))
                => pc' = "open_device"
           /\ (pc = "open_device" /\ last_call' = Call("claim_interface", TRUE))
                => /\ ResilienceState' = "Connected"
                   /\ pc' \in LoopPcs /\ exc' = "none" /\ claimed'
                   /\ out' = <<>>
         ]_vars
    /\ [](reopens > 0 /\ Classified =>
            \A k \in 1..Len(Signatures) :
                StrIn(Signatures[k].sig, bytes_to_hex_str(raw))
                   <=> Signatures[k].gesture \in Dispatched)

\* C3 witness: after a completed re-open the loop has read and dispatched a
\* report carrying a signature, and no exception is pending.
C3_Witness ==
    /\ reopens > 0 /\ Classified /\ exc = "none" /\ claimed
    /\ KnobTurn1Up \in Dispatched

\* C4: a failure of the re-open (lines 130-131) never becomes an exception
\* that leaves the loop.  (Stated as the claim has it.)
C4_ReopenFailureNotFatal ==
    ~(exc = "USBError" /\ raised_at = "open_device")

\* C5: once the loop runs, whatever the reads, the release and the re-claim
\* do, main is left only through a KeyboardInterrupt.  (Stated as the claim
\* has it.)
C5_OnlyCancellationEndsLoop ==
    (pc \in {"finally", "exited"} /\ raised_at \in LoopPcs)
        => (interrupted /\ exc = "none")

\* C6: in an iteration whose read timed out (errno 110) no Gesture is
\* dispatched, the claim is untouched, no library call follows the read, the
\* loop stays Connected, and after the delay the next read is issued.
C6_TimeoutTransparent ==
    [][ /\ (errno' = ETIMEDOUT /\ pc' \in LoopPcs)
              => /\ out' = <<>>
                 /\ claimed' = claimed
                 /\ last_call' = Call("read", FALSE)
                 /\ ResilienceState' = "Connected"
        /\ (errno = ETIMEDOUT /\ pc = "sleep" /\ ProgramStep) => pc' = "read"
      ]_vars

\* C6 witness: a timed-out iteration has run both signature tests after an
\* earlier iteration read a report that carried a signature.
C6_Witness ==
    /\ errno = ETIMEDOUT /\ pc = "sleep" /\ iter >= 2
    /\ StrIn(SigKnob1Up, bytes_to_hex_str(raw))
    /\ out = <<>>

\* C7: a KeyboardInterrupt raised anywhere in the loop body takes main out
\* of the loop for good, close_device is called before main returns, and
\* main returns normally.
InterruptedInLoop == interrupted /\ raised_at \in LoopPcs

C7_CancellationReleases ==
    /\ [](InterruptedInLoop =>
            /\ pc \in {"except_kbd", "finally", "exited"}
            /\ (pc = "exited") =>
                  (closed /\ last_call.fn = "release_interface" /\ exc = "none"))
    /\ (InterruptedInLoop ~> (pc = "exited" /\ closed))

\* C7 witness: main has returned after an interrupt that arrived between the
\* release and the re-claim of a re-open.
C7_Witness ==
    /\ pc = "exited" /\ interrupted /\ raised_at = "open_device" /\ closed

\* C8: whenever main is left after find_and_open succeeded, close_device has
\* been called.  (Stated as the claim has it.)
C8_ReleaseOnEveryExit ==
    (pc = "exited" /\ raised_at # "find_and_open") => closed

\* C9 as stated: close_device never raises and leaves the handle released,
\* also when the release fails.
C9_ReleaseLeavesReleased ==
    closed => (raised_at # "finally" /\ ~claimed)

\* C9 as amended: close_device never raises, whatever the release does; a
\* handle that was already released stays released and a release that
\* succeeds leaves it released.
C9_ReleaseNeverRaises ==
    [][ pc = "finally" =>
          /\ pc' = "exited" /\ closed'
          /\ exc' = exc /\ raised_at' = raised_at
          /\ (~claimed \/ last_call'.ok) => ~claimed'
      ]_vars

\* C9 witness: the exit-path release has run after a re-open released the
\* interface and failed to claim it again, and that release failed too.
C9_Witness ==
    /\ pc = "exited" /\ closed
    /\ raised_at = "open_device" /\ exc = "USBError"
    /\ last_call = Call("release_interface", FALSE) /\ ~claimed

\* C10: after a read that failed with a device-absence errno (2 or 19) the
\* loop reaches the signature tests only through a completed re-open.
\* (Stated as the claim has it.)
C10_AbsenceCodesReopen ==
    (errno \in {ENOENT, 19} /\ pc \in {"if_knob", "if_button", "sleep"})
        => last_call = Call("claim_interface", TRUE)

\* C11: in an iteration whose read failed with an errno that is neither the
\* timeout nor a device-absence code, no Gesture is dispatched, the claim is
\* untouched, no release or re-claim follows the read, the loop stays
\* Connected, and after the delay the next read is issued.
C11_TransientErrorContinues ==
    [][ /\ (errno' \notin {NoErrno, ETIMEDOUT, ENOENT, 19} /\ pc' \in LoopPcs)
              => /\ out' = <<>>
                 /\ claimed' = claimed
                 /\ last_call' = Call("read", FALSE)
                 /\ ResilienceState' = "Connected"
        /\ (errno \notin {NoErrno, ETIMEDOUT, ENOENT, 19} /\ ProgramStep
              /\ pc \in {"except", "if_knob", "if_button", "sleep"})
              => pc' \in LoopPcs
      ]_vars

\* C11 witness: an iteration whose read failed with errno 5 has run both
\* signature tests, with the claim still held.
C11_Witness ==
    /\ errno = 5 /\ pc = "sleep" /\ claimed /\ out = <<>>
    /\ last_call = Call("read", FALSE)

\* C12: when the first find_and_open finds no device, main is left at once
\* with the error: no later library call, no read, no Gesture, no claim.
C12_StartupFailureFatal ==
    /\ [](last_call = Call("find", FALSE) =>
            /\ pc = "exited" /\ exc = "RuntimeError"
            /\ raised_at = "find_and_open"
            /\ iter = 0 /\ out = <<>> /\ ~claimed /\ reopens = 0)
    /\ [][pc = "exited" => pc' = "exited"]_vars

\* C12 witness: the device was not found at start-up and main has ended.
C12_Witness ==
    /\ pc = "exited" /\ last_call = Call("find", FALSE) /\ exc = "RuntimeError"

\* C13: a read is issued only with the claim held and the loop Connected, and
\* never right after a release or a failed step of the re-open.
C13_ReadOnlyWhenClaimed ==
    [][ iter' # iter =>
          /\ claimed
          /\ ResilienceState = "Connected"
          /\ last_call \in {Call("claim_interface", TRUE),
                            Call("read", TRUE), Call("read", FALSE)}
      ]_vars

\* C13 witness: a read has been issued after a re-open completed in an
\* earlier iteration.
C13_Witness ==
    /\ reopens > 0 /\ pc = "if_knob" /\ errno = NoErrno
    /\ last_call = Call("read", TRUE)

\* C14: the interface is claimed only while no claim is held, and a claim
\* made by the re-open comes right after a release that succeeded, with no
\* other library call in between.
C14_AcquireReleaseDiscipline ==
    [][ (pc \in {"find_and_open", "open_device"} /\ last_call'.fn = "claim_interface")
          => /\ ~claimed
             /\ (pc = "find_and_open") => (last_call = Call("none", TRUE))
             /\ (pc = "open_device") => (last_call = Call("release_interface", TRUE))
      ]_vars

\* C14 witness: the re-open has claimed the interface again after releasing
\* the claim of find_and_open.
C14_Witness ==
    /\ reopens > 0 /\ claimed /\ last_call = Call("claim_interface", TRUE)
    /\ pc = "if_knob" /\ errno = ENOENT

\* The classification of the reference design: the Gesture of the first
\* signature, in registration order, that the hex string contains.
FirstMatch(h) ==
    IF StrIn(Signatures[1].sig, h) THEN <<Signatures[1].gesture>>
    ELSE IF StrIn(Signatures[2].sig, h) THEN <<Signatures[2].gesture>>
    ELSE <<>>

\* C15: when the next read is about to be issued, what the iteration before
\* it dispatched is exactly the one Gesture of the report it read, or nothing
\* when it read no signature-bearing report: the dispatched Gestures are the
\* image of the reports, one for one and in order.  (Stated as the claim has
\* it.)
C15_SequentialImage ==
    (pc = "read" /\ iter > 0) =>
        out = IF errno = NoErrno THEN FirstMatch(bytes_to_hex_str(raw)) ELSE <<>>

\* C16: a release that fails inside the re-open never becomes an exception
\* that leaves the loop.  (Stated as the claim has it.)
C16_ReopenReleaseBestEffort ==
    ~(exc = "USBError" /\ raised_at = "release")

\* Number of times the gesture g occurs in the sequence q.
Count(g, q) == Cardinality({i \in 1..Len(q) : q[i] = g})

\* C17: hex_str is empty whenever a read is about to be issued; an iteration
\* dispatches a Gesture at most once, and only if its own read returned a
\* report whose hex string contains the signature; an iteration whose read
\* failed dispatches nothing.
C17_NoStaleGestures ==
    /\ (pc = "read") => hex_str = <<>>
    /\ \A k \in 1..Len(Signatures) :
          Count(Signatures[k].gesture, out) <=
             IF iter > 0 /\ errno = NoErrno
                  /\ StrIn(Signatures[k].sig, bytes_to_hex_str(raw))
               THEN 1 ELSE 0
    /\ (errno # NoErrno) => out = <<>>

\* C17 witness: the iteration that performed a re-open has run both signature
\* tests and dispatched nothing, although the last report read carried both
\* signatures.
C17_Witness ==
    /\ pc = "sleep" /\ errno = ENOENT /\ reopens > 0 /\ out = <<>>
    /\ StrIn(SigKnob1Up, bytes_to_hex_str(raw))
    /\ StrIn(SigButton1, bytes_to_hex_str(raw))

\* The value of a hex digit.
HexVal(c) == CHOOSE n \in 0..15 : HexDigits[n + 1] = c

\* The bytes a signature string spells: one byte per two-digit group.
SigBytes(sig) ==
    [k \in 1..((Len(sig) + 1) \div 3) |->
        16 * HexVal(sig[3 * k - 2]) + HexVal(sig[3 * k - 1])]

\* The bytes b occur in data as a contiguous run of whole bytes.
BytesIn(b, data) ==
    \E i \in 0..(Len(data) - Len(b)) : SubSeq(data, i + 1, i + Len(b)) = b

\* C18: while a report is being tested, a signature string is contained in
\* hex_str exactly when the signature's bytes are a contiguous run of whole
\* bytes of the report, and its Gesture is dispatched exactly then; A0 10 30
\* and 10 30 50 00 10 10 dispatch nothing.
C18_ByteAligned ==
    (errno = NoErrno /\ pc \in {"if_knob", "if_button", "sleep"}) =>
        /\ \A k \in 1..Len(Signatures) :
              /\ StrIn(Signatures[k].sig, hex_str)
                    <=> BytesIn(SigBytes(Signatures[k].sig), raw)
              /\ (pc = "sleep") =>
                    (Signatures[k].gesture \in Dispatched
                        <=> BytesIn(SigBytes(Signatures[k].sig), raw))
        /\ (pc = "sleep" /\ raw \in {<<160, 16, 48>>, <<16, 48, 80, 0, 16, 16>>})
              => out = <<>>

\* C18 witness: a report whose hex digits spell the knob signature one
\* nibble off has been tested and nothing was dispatched.
C18_Witness ==
    /\ pc = "sleep" /\ errno = NoErrno
    /\ raw = <<16, 48, 80, 0, 16, 16>> /\ out = <<>>

====
